---- MODULE Spec2Model ----
(***************************************************************************)
(* CodeLens scanner (backend/scanner.py, backend/main.py).                 *)
(*                                                                         *)
(* A string is a sequence of tokens.  A token is "/", "." or a word: a     *)
(* maximal run of characters other than "/" and ".".  Concatenation is \o, *)
(* and every string built below keeps words maximal (a word is only ever   *)
(* followed by "/" or ".").  Words are lower case, so str.lower() and      *)
(* str.strip() change nothing and are not written out.  No string of the   *)
(* model begins with "/" (PurePosixPath's root is not modelled).           *)
(***************************************************************************)
EXTENDS Integers, Sequences, FiniteSets, TLC

\* ------------------------------------------------------------------------
\* Strings and str methods
\* ------------------------------------------------------------------------

Last(s) == s[Len(s)]

SetMax(S) == CHOOSE x \in S : \A y \in S : y <= x

\* str.split(sep): the pieces between occurrences of sep, empty ones kept.
RECURSIVE Split(_, _)
Split(s, sep) ==
    IF \A i \in 1..Len(s) : s[i] # sep
    THEN <<s>>
    ELSE LET k == CHOOSE i \in 1..Len(s) :
                      s[i] = sep /\ \A j \in 1..(i - 1) : s[j] # sep
         IN  <<SubSeq(s, 1, k - 1)>> \o Split(SubSeq(s, k + 1, Len(s)), sep)

\* sep.join(parts)
RECURSIVE Join(_, _)
Join(parts, sep) ==
    IF parts = <<>> THEN <<>>
    ELSE IF Len(parts) = 1 THEN parts[1]
    ELSE parts[1] \o <<sep>> \o Join(Tail(parts), sep)

\* str.lstrip("."): the number of leading dots, and the rest.
LeadingDots(s) ==
    IF \A i \in 1..Len(s) : s[i] = "." THEN Len(s)
    ELSE (CHOOSE i \in 1..Len(s) : s[i] # "." /\ \A j \in 1..(i - 1) : s[j] = ".") - 1

\* The code point order of strings, token by token: "." (46) < "/" (47) <
\* every word character, and WordOrder lists the model's words in code
\* point order.  A word that is a proper prefix of another is followed by
\* "." , "/" or the end, all below any word character, so comparing tokens
\* agrees with comparing characters.
WordOrder == <<"__init__", "app", "bin", "helpers", "index", "js", "json",
               "mjs", "mod", "pkg", "py", "react", "src", "sub", "top",
               "ts", "util">>

TokRank(t) ==
    IF t = "." THEN 0
    ELSE IF t = "/" THEN 1
    ELSE 1 + (CHOOSE i \in 1..Len(WordOrder) : WordOrder[i] = t)

RECURSIVE StrLess(_, _)
StrLess(a, b) ==
    IF b = <<>> THEN FALSE
    ELSE IF a = <<>> THEN TRUE
    ELSE IF a[1] = b[1] THEN StrLess(Tail(a), Tail(b))
    ELSE TokRank(a[1]) < TokRank(b[1])

\* sorted(S) for a set of strings.
RECURSIVE sorted(_)
sorted(S) ==
    IF S = {} THEN <<>>
    ELSE LET m == CHOOSE x \in S : \A y \in S \ {x} : StrLess(x, y)
         IN  <<m>> \o sorted(S \ {m})

\* ------------------------------------------------------------------------
\* pathlib.PurePosixPath and os.path
\* ------------------------------------------------------------------------

\* PurePosixPath(s).parts: empty and "." segments are dropped; ".." is kept.
PathParts(s) ==
    SelectSeq(Split(s, "/"), LAMBDA seg : seg # <<>> /\ seg # <<".">>)

\* str(PurePosixPath): the parts joined by "/", and "." for no parts.
PathStr(parts) == IF parts = <<>> THEN <<".">> ELSE Join(parts, "/")

\* PurePosixPath.parent, on parts.
PathParent(parts) ==
    IF parts = <<>> THEN <<>> ELSE SubSeq(parts, 1, Len(parts) - 1)

\* PurePosixPath.name, on parts.
PathName(parts) == IF parts = <<>> THEN <<>> ELSE Last(parts)

\* os.path.splitext(path)[1]: from the last dot of the last segment, unless
\* only dots precede it there.
splitext(path) ==
    LET seg  == Last(Split(path, "/"))
        dots == {i \in 1..Len(seg) : seg[i] = "."}
    IN  IF dots = {} THEN <<>>
        ELSE LET i == SetMax(dots)
             IN  IF \E j \in 1..(i - 1) : seg[j] # "."
                 THEN SubSeq(seg, i, Len(seg))
                 ELSE <<>>

\* Python's None, where a string is expected: no string of the model.
None == <<"<None>">>

\* ------------------------------------------------------------------------
\* Constants of scanner.py
\* ------------------------------------------------------------------------

MAX_BYTES == 104857600

MAX_FILES == 5000

SIZE_GUARD == 2000000

HEAD_BYTES == 4096

\* The extensions of TEXT_EXTS the model's words can spell.
TEXT_EXTS == {<<".", "py">>, <<".", "js">>, <<".", "ts">>, <<".", "json">>}

\* Likewise for JS_TS_EXTS; ".mjs" is in it and not in TEXT_EXTS.
JS_TS_EXTS == {<<".", "js">>, <<".", "ts">>, <<".", "json">>, <<".", "mjs">>}

PY_EXTS == {<<".", "py">>}

\* Mutant: the candidate suffixes without the index files.
CANDIDATE_JS_TS_NoIndex ==
    << <<".", "ts">>, <<".", "tsx">>, <<".", "js">>, <<".", "jsx">>,
       <<".", "json">> >>

\* The .tsx and .jsx suffixes are spelt with the words "tsx" and "jsx",
\* which no path of the model uses.
CANDIDATE_JS_TS ==
    << <<".", "ts">>, <<".", "tsx">>, <<".", "js">>, <<".", "jsx">>,
       <<".", "json">>,
       <<"/", "index", ".", "ts">>, <<"/", "index", ".", "tsx">>,
       <<"/", "index", ".", "js">>, <<"/", "index", ".", "jsx">> >>

\* ------------------------------------------------------------------------
\* Dependency resolution helpers
\* ------------------------------------------------------------------------

_is_rel(spec) == spec # <<>> /\ spec[1] = "."

_norm_posix(path) == PathStr(PathParts(path))

\* re.sub(r"/\./", "/", p): leftmost non-overlapping matches.
RECURSIVE ReSubSlashDotSlash(_)
ReSubSlashDotSlash(p) ==
    IF Len(p) < 3 THEN p
    ELSE IF p[1] = "/" /\ p[2] = "." /\ p[3] = "/"
         THEN <<"/">> \o ReSubSlashDotSlash(SubSeq(p, 4, Len(p)))
         ELSE <<p[1]>> \o ReSubSlashDotSlash(Tail(p))

\* The first x + suffix, suffix in order, that is in all_files, or None.
RECURSIVE FirstWithSuffix(_, _, _)
FirstWithSuffix(p, suffixes, all_files) ==
    IF suffixes = <<>> THEN None
    ELSE IF (p \o suffixes[1]) \in all_files THEN p \o suffixes[1]
    ELSE FirstWithSuffix(p, Tail(suffixes), all_files)

INNER_EXTS ==
    << <<".", "ts">>, <<".", "tsx">>, <<".", "js">>, <<".", "jsx">>,
       <<".", "json">> >>

INNER_INDEX ==
    << <<"/", "index", ".", "ts">>, <<"/", "index", ".", "tsx">>,
       <<"/", "index", ".", "js">>, <<"/", "index", ".", "jsx">> >>

\* _resolve_js_ts, line 141: the containing directory joined with spec.
JsBase(cur_path, spec) ==
    PathStr(PathParent(PathParts(cur_path)) \o PathParts(spec))

\* _resolve_js_ts, line 142.
JsCandidates(base) ==
    <<base>> \o [i \in 1..Len(CANDIDATE_JS_TS) |-> base \o CANDIDATE_JS_TS[i]]

\* _resolve_js_ts, lines 143-157: the loop over the candidates.
RECURSIVE JsLoop(_, _)
JsLoop(candidates, all_files) ==
    IF candidates = <<>> THEN None
    ELSE LET p == _norm_posix(ReSubSlashDotSlash(_norm_posix(candidates[1])))
         IN  IF p \in all_files THEN p
             ELSE IF \A i \in 1..Len(PathName(PathParts(p))) :
                         PathName(PathParts(p))[i] # "."
                  THEN LET e == FirstWithSuffix(p, INNER_EXTS, all_files)
                           x == FirstWithSuffix(p, INNER_INDEX, all_files)
                       IN  IF e # None THEN e
                           ELSE IF x # None THEN x
                           ELSE JsLoop(Tail(candidates), all_files)
                  ELSE JsLoop(Tail(candidates), all_files)

_resolve_js_ts(cur_path, spec, all_files) ==
    IF ~_is_rel(spec) THEN None
    ELSE JsLoop(JsCandidates(JsBase(cur_path, spec)), all_files)

\* _resolve_py, lines 161-169: cur_dir, up levels of .parent, then the
\* dotted rest joined beneath (joinpath drops empty segments).
RECURSIVE Ascend(_, _)
Ascend(parts, up) == IF up = 0 THEN parts ELSE Ascend(PathParent(parts), up - 1)

PyTargetDir(cur_path, mod) ==
    LET up   == LeadingDots(mod)
        rest == SubSeq(mod, up + 1, Len(mod))
        dir  == Ascend(PathParent(PathParts(cur_path)), up)
    IN  IF rest # <<>>
        THEN dir \o SelectSeq(Split(rest, "."), LAMBDA w : w # <<>>)
        ELSE dir

\* _resolve_py, lines 170-173: the candidates of a relative module.
PyRelCands(target_dir) ==
    << _norm_posix(PathStr(target_dir) \o <<"/", "__init__", ".", "py">>),
       _norm_posix(PathStr(target_dir) \o <<".", "py">>) >>

\* _resolve_py, lines 178-183: the candidates of an absolute module.
PyAbsCands(mod) ==
    << _norm_posix(Join(Split(mod, "."), "/") \o <<".", "py">>),
       _norm_posix(Join(Split(mod, "."), "/") \o <<"/", "__init__", ".", "py">>) >>

RECURSIVE FirstIn(_, _)
FirstIn(cands, all_files) ==
    IF cands = <<>> THEN None
    ELSE IF cands[1] \in all_files THEN cands[1]
    ELSE FirstIn(Tail(cands), all_files)

_resolve_py(cur_path, mod, all_files) ==
    IF mod # <<>> /\ mod[1] = "."
    THEN FirstIn(PyRelCands(PyTargetDir(cur_path, mod)), all_files)
    ELSE FirstIn(PyAbsCands(mod), all_files)

\* ------------------------------------------------------------------------
\* File content and import extraction
\* ------------------------------------------------------------------------

(***************************************************************************)
(* A file's bytes are modelled by what the scanner reads off them:         *)
(*   head_nul   a NUL byte among the first HEAD_BYTES bytes                *)
(*   head_utf8  the first HEAD_BYTES bytes decode as UTF-8                 *)
(*   size       len(content)                                               *)
(*   lines      the decoded text, line by line                             *)
(* A line is [form, word, spec]:                                           *)
(*   import_from   import <word> from "<spec>"                             *)
(*   import_bare   import "<spec>"                                         *)
(*   export_from   export <word> from "<spec>"                             *)
(*   require       const <word> = require("<spec>")                        *)
(*   import_call   await import("<spec>")                                  *)
(*   py_from       from <spec> import <word>                               *)
(*   py_import     import <spec>                                           *)
(*   other         a line that holds no import                             *)
(* Each regular expression match lies within one line.                     *)
(***************************************************************************)
Line(form, word, spec) == [form |-> form, word |-> word, spec |-> spec]

Content(nul, utf8, size, lines) ==
    [head_nul |-> nul, head_utf8 |-> utf8, size |-> size, lines |-> lines]

RECURSIVE Flatten(_)
Flatten(seqs) ==
    IF seqs = <<>> THEN <<>> ELSE seqs[1] \o Flatten(Tail(seqs))

\* IMPORT_RE_JS on one line: the four alternatives capture the quoted
\* specifier; the Python forms carry no quote and do not match.
JsMatch(line) ==
    IF line.form \in {"import_from", "import_bare", "export_from",
                      "require", "import_call"} /\ line.spec # <<>>
    THEN <<line.spec>>
    ELSE <<>>

_parse_js_ts_imports(text) ==
    Flatten([i \in 1..Len(text) |-> JsMatch(text[i])])

\* IMPORT_RE_PY on one line: "from <mod> import ..." captures <mod>;
\* "import <token>" at the start of a line captures the first [\w.]+ token,
\* which for a JS "import <word> from ..." line is <word>.
PyMatch(line) ==
    IF line.form \in {"py_from", "py_import"} /\ line.spec # <<>>
    THEN <<line.spec>>
    ELSE IF line.form = "import_from" /\ line.word # <<>>
    THEN <<line.word>>
    ELSE <<>>

_parse_py_imports(text) ==
    Flatten([i \in 1..Len(text) |-> PyMatch(text[i])])

\* Mutant: every file is taken for text.
looks_textual_Always(path, head) == TRUE

looks_textual(path, head) ==
    IF splitext(path) \in TEXT_EXTS THEN TRUE
    ELSE IF head.head_nul THEN FALSE
    ELSE head.head_utf8

count_loc_from_bytes(b) == Len(b.lines)

\* ------------------------------------------------------------------------
\* The tree
\* ------------------------------------------------------------------------

\* A dict is a function; d[k] = v adds or replaces a key.
EmptyDict == [k \in {} |-> 0]

DictSet(d, k, v) == [x \in (DOMAIN d) \cup {k} |-> IF x = k THEN v ELSE d[x]]

\* node.setdefault("children", {})
Children(node) ==
    IF "children" \in DOMAIN node THEN node.children ELSE EmptyDict

RECURSIVE add_to_tree(_, _, _)
add_to_tree(node, parts, loc) ==
    LET kids == Children(node)
        p    == parts[1]
    IN  IF Len(parts) = 1
        THEN DictSet(node, "children",
                     DictSet(kids, p, [name |-> p, loc |-> loc]))
        ELSE LET child == IF p \in DOMAIN kids THEN kids[p]
                          ELSE [name |-> p, children |-> EmptyDict]
             IN  DictSet(node, "children",
                         DictSet(kids, p, add_to_tree(child, Tail(parts), loc)))

\* child.get("loc", 0)
GetLoc(node) == IF "loc" \in DOMAIN node THEN node.loc ELSE 0

RECURSIVE SumLoc(_)
SumLoc(kids) == IF kids = <<>> THEN 0 ELSE GetLoc(kids[1]) + SumLoc(Tail(kids))

RECURSIVE tree_to_list(_)
tree_to_list(node) ==
    LET names == sorted(DOMAIN Children(node))
        kids  == [i \in 1..Len(names) |-> tree_to_list(node.children[names[i]])]
    IN  IF kids # <<>>
        THEN [name |-> node.name, loc |-> SumLoc(kids), children |-> kids]
        ELSE IF "loc" \in DOMAIN node
        THEN [name |-> node.name, loc |-> node.loc]
        ELSE [name |-> node.name]

\* ------------------------------------------------------------------------
\* scan_repo, piece by piece
\* ------------------------------------------------------------------------

\* parse_repo_url on a URL given as tokens: "github.com", one or more of
\* ":" and "/", an owner, "/", the repository name (which takes a trailing
\* ".git" with it, "." being one of its characters), an optional "/".
UrlSeps == {":", "/"}

parse_repo_url(url) ==
    LET hosts == {i \in 1..Len(url) : url[i] = "github.com"}
    IN  IF hosts = {} THEN [ok |-> FALSE]
        ELSE LET g    == CHOOSE i \in hosts : \A j \in hosts : i <= j
                 rest == SubSeq(url, g + 1, Len(url))
                 n    == IF \A i \in 1..Len(rest) : rest[i] \in UrlSeps
                         THEN Len(rest)
                         ELSE (CHOOSE i \in 1..Len(rest) : rest[i] \notin UrlSeps
                                 /\ \A j \in 1..(i - 1) : rest[j] \in UrlSeps) - 1
                 tail == SubSeq(rest, n + 1, Len(rest))
                 name == IF Len(tail) > 2 /\ Last(tail) = "/"
                         THEN SubSeq(tail, 3, Len(tail) - 1)
                         ELSE SubSeq(tail, 3, Len(tail))
             IN  IF n >= 1 /\ Len(tail) >= 3 /\ tail[2] = "/" /\ name # <<>>
                    /\ \A i \in 1..Len(name) : name[i] \notin UrlSeps
                 THEN [ok |-> TRUE, owner |-> tail[1], repo |-> name]
                 ELSE [ok |-> FALSE]

\* download_zipball raises: raise_for_status, or the running size of the
\* chunks read passes MAX_BYTES (which it does iff the whole body does).
DownloadRaises(resp) == ~resp.status_ok \/ resp.size > MAX_BYTES

\* Lines 217-220: the archive name without its first segment, normalised.
RelPath(filename) ==
    LET parts == Split(filename, "/")
    IN  _norm_posix(IF Len(parts) > 1 THEN Join(Tail(parts), "/") ELSE parts[1])

\* file_bytes is a dict in insertion order: a sequence of [path, content]
\* with distinct paths; assigning an existing key keeps its place.
OrderedSet(d, k, v) ==
    IF \E i \in 1..Len(d) : d[i].path = k
    THEN [i \in 1..Len(d) |->
             IF d[i].path = k THEN [path |-> k, content |-> v] ELSE d[i]]
    ELSE Append(d, [path |-> k, content |-> v])

\* Lines 233-234: whether pass one keeps the content for pass two.
Retained(rel, content) ==
    (splitext(rel) \in JS_TS_EXTS \/ splitext(rel) \in PY_EXTS)
    /\ content.size <= SIZE_GUARD

\* "if tgt:" -- neither None nor the empty string.
Truthy(tgt) == tgt # None /\ tgt # <<>>

\* Mutant: an import that resolves to the importing file adds no edge.
RECURSIVE EdgesOf_NoSelf(_, _, _, _)
EdgesOf_NoSelf(path, specs, all_files, js) ==
    IF specs = <<>> THEN <<>>
    ELSE LET tgt == IF js
                    THEN (IF _is_rel(specs[1])
                          THEN _resolve_js_ts(path, specs[1], all_files)
                          ELSE None)
                    ELSE _resolve_py(path, specs[1], all_files)
         IN  (IF Truthy(tgt) /\ tgt # path THEN << <<path, tgt>> >> ELSE <<>>)
             \o EdgesOf_NoSelf(path, Tail(specs), all_files, js)

\* Lines 245-248 and 250-253: the edges of the specifiers of one file.
RECURSIVE EdgesOf(_, _, _, _)
EdgesOf(path, specs, all_files, js) ==
    IF specs = <<>> THEN <<>>
    ELSE LET tgt == IF js
                    THEN (IF _is_rel(specs[1])
                          THEN _resolve_js_ts(path, specs[1], all_files)
                          ELSE None)
                    ELSE _resolve_py(path, specs[1], all_files)
         IN  (IF Truthy(tgt) THEN << <<path, tgt>> >> ELSE <<>>)
             \o EdgesOf(path, Tail(specs), all_files, js)

\* Lines 242-253: one iteration of pass two.
FileEdges(path, content, all_files) ==
    IF splitext(path) \in JS_TS_EXTS
    THEN EdgesOf(path, _parse_js_ts_imports(content.lines), all_files, TRUE)
    ELSE IF splitext(path) \in PY_EXTS
    THEN EdgesOf(path, _parse_py_imports(content.lines), all_files, FALSE)
    ELSE <<>>

\* ------------------------------------------------------------------------
\* Inputs
\* ------------------------------------------------------------------------

MaxEntries == 2

MaxScans == 2

MaxTime == 1

Urls ==
    { <<"https://", "github.com", "/", "owner", "/", "repo">>,
      <<"git@", "github.com", ":", "owner", "/", "repo", ".git">>,
      <<"https://", "gitlab.com", "/", "owner", "/", "repo">> }

Other == Line("other", <<>>, <<>>)

\* src/app.ts: an external package, the same relative import twice, itself.
AppTs ==
    Content(FALSE, TRUE, 120,
            << Line("import_from", <<"react">>, <<"react">>),
               Line("import_bare", <<>>, <<".", "/", "util">>),
               Line("require", <<"util">>, <<".", "/", "util">>),
               Line("import_call", <<>>, <<".", "/", "app">>) >>)

UtilTs == Content(FALSE, TRUE, 10, <<Other>>)

\* pkg/mod.py: "from . import helpers", "import pkg.helpers"
ModPy ==
    Content(FALSE, TRUE, 50,
            << Line("py_from", <<"helpers">>, <<".">>),
               Line("py_import", <<>>, <<"pkg", ".", "helpers">>) >>)

HelpersPy == Content(FALSE, TRUE, 20, <<Other, Other>>)

\* A binary file: a NUL byte in its head.  Decoded with errors ignored its
\* bytes still read as lines, one of them an import.
Binary ==
    Content(TRUE, FALSE, 300,
            << Other, Line("import_bare", <<>>, <<".", "/", "util">>) >>)

\* A plain text file with no extension.
Plain == Content(FALSE, TRUE, 30, <<Other, Other, Other>>)

\* A source file that decompresses to more than MAX_BYTES.
Huge ==
    Content(FALSE, TRUE, MAX_BYTES + 1,
            << Line("export_from", <<>>, <<".", "/", "app">>), Other >>)

\* An entry of zf.infolist().  copies > 1 stands for that many consecutive
\* entries of the same name and bytes (a ZIP file may repeat a name), which
\* the loop of pass one then takes in one step.
Run(filename, content, copies) ==
    [filename |-> filename, is_dir |-> FALSE, crc_ok |-> TRUE,
     content |-> content, copies |-> copies]

File(filename, content) == Run(filename, content, 1)

Entries ==
    { File(<<"top", "/", "src", "/", "app", ".", "ts">>, AppTs),
      File(<<"top", "/", "src", "/", "util", ".", "ts">>, UtilTs),
      File(<<"top", "/", "pkg", "/", "mod", ".", "py">>, ModPy),
      File(<<"top", "/", "pkg", "/", "helpers", ".", "py">>, HelpersPy),
      File(<<"top", "/", "src", "/", "app", ".", "mjs">>, Binary),
      File(<<"top", "/", "src">>, Plain),
      File(<<"top", "/", "src", "/", "util", ".", "ts">>, Huge),
      [filename |-> <<"top", "/", "src", "/">>, is_dir |-> TRUE,
       crc_ok |-> TRUE, content |-> Content(FALSE, TRUE, 0, <<>>), copies |-> 1],
      [filename |-> <<"top", "/", "pkg", "/", "mod", ".", "py">>, is_dir |-> FALSE,
       crc_ok |-> FALSE, content |-> ModPy, copies |-> 1] }

\* Archives at the file-count limit: MAX_FILES files, one more, and
\* MAX_FILES files after a first one.
AtLimit ==
    { << Run(<<"top", "/", "pkg", "/", "helpers", ".", "py">>, HelpersPy, MAX_FILES) >>,
      << Run(<<"top", "/", "pkg", "/", "helpers", ".", "py">>, HelpersPy, MAX_FILES + 1) >>,
      << File(<<"top", "/", "src", "/", "util", ".", "ts">>, UtilTs),
         Run(<<"top", "/", "src", "/", "app", ".", "mjs">>, Binary, MAX_FILES) >> }

Archives == UNION {[1..n -> Entries] : n \in 0..MaxEntries}

\* What the code host answers for the repository: an HTTP status, the size
\* of the zipball in bytes, whether it is a ZIP file, and its entries.
Remote(status_ok, size, is_zip, infolist) ==
    [status_ok |-> status_ok, size |-> size, is_zip |-> is_zip,
     infolist |-> infolist]

Remotes ==
    { Remote(FALSE, 0, FALSE, <<>>),
      Remote(TRUE, 500, FALSE, <<>>),
      Remote(TRUE, MAX_BYTES + 1000, TRUE,
             << File(<<"top", "/", "src", "/", "util", ".", "ts">>, Huge) >>) }
    \cup {Remote(TRUE, 1000, TRUE, a) : a \in Archives \cup AtLimit}

\* Inputs of the resolvers.
MaxKnown == 2

RCurs ==
    { <<"src", "/", "app", ".", "ts">>,
      <<"src", "/", "app", "/", "app", ".", "ts">>,
      <<"app", ".", "ts">>,
      <<"pkg", "/", "mod", ".", "py">> }

RLines ==
    { Line("import_from", <<"util">>, <<".", "/", "util">>),
      Line("import_from", <<"util">>, <<".", ".", "/", "util">>),
      Line("require", <<"util">>, <<".", "/", "util", ".", "js">>),
      Line("import_from", <<"react">>, <<"react">>),
      Line("import_bare", <<>>, <<".">>),
      Line("py_from", <<"helpers">>, <<".">>),
      Line("py_from", <<"util">>, <<".", "helpers">>),
      Line("py_from", <<"util">>, <<".", "sub">>),
      Line("py_import", <<>>, <<"pkg", ".", "sub">>) }

RPaths ==
    { <<"src", "/", "util", ".", "ts">>,
      <<"src", "/", "util", ".", "js">>,
      <<"src", "/", "util", "/", "index", ".", "ts">>,
      <<"src", "/", "util", ".", "js", "/", "index", ".", "ts">>,
      <<"index", ".", "js">>,
      <<"pkg", "/", "helpers", ".", "py">>,
      <<"pkg", "/", "sub", ".", "py">>,
      <<"pkg", "/", "sub", "/", "__init__", ".", "py">>,
      <<"sub", ".", "py">>,
      <<"sub", "/", "__init__", ".", "py">>,
      <<"react", ".", "py">> }

KnownSets == {K \in SUBSET RPaths : Cardinality(K) <= MaxKnown}

\* ------------------------------------------------------------------------
\* State
\* ------------------------------------------------------------------------

VARIABLES
    remote,         \* what the code host serves for the repository
    scans,          \* data/scans: scan_id -> {summary, tree, graph}
    clock,          \* time.time()
    calls,          \* POST /scan requests so far
    repo_url,       \* the request's repo_url
    pc,             \* where scan_repo is
    response,       \* what start_scan answered
    owner_repo,     \* parse_repo_url's result
    zip_bytes,      \* download_zipball's result
    zi,             \* position in zf.infolist()
    files_scanned, total_loc, root_tree, all_files, file_bytes, edges,
    tree,           \* tree_to_list(root_tree)
    fb,             \* position in file_bytes.items()
    scan_id,        \* the local scan_id
    r_pc, r_fn, r_cur, r_line, r_known, r_out   \* one call of a resolver

locals ==
    <<owner_repo, zip_bytes, zi, files_scanned, total_loc, root_tree,
      all_files, file_bytes, edges, tree, fb, scan_id>>

scan_vars == <<remote, scans, clock, calls, repo_url, pc, response, locals>>

r_vars == <<r_pc, r_fn, r_cur, r_line, r_known, r_out>>

vars == <<scan_vars, r_vars>>

NoId == 0

NoResponse == [status |-> 0]

EmptyRoot == [name |-> <<"root">>, children |-> EmptyDict]

NoOwner == [ok |-> FALSE]

NoZip == Remote(FALSE, 0, FALSE, <<>>)

NoTree == [name |-> <<>>]

\* The locals of a call that has not begun.
LocalsFresh ==
    /\ owner_repo = NoOwner
    /\ zip_bytes = NoZip
    /\ zi = 0
    /\ files_scanned = 0
    /\ total_loc = 0
    /\ root_tree = EmptyRoot
    /\ all_files = {}
    /\ file_bytes = <<>>
    /\ edges = <<>>
    /\ tree = NoTree
    /\ fb = 0
    /\ scan_id = NoId

InitScan ==
    /\ remote \in Remotes
    /\ scans = EmptyDict
    /\ clock = 0
    /\ calls = 1
    /\ repo_url \in Urls
    /\ pc = "parse_url"
    /\ response = NoResponse
    /\ LocalsFresh

ScanIdle ==
    /\ remote = NoZip
    /\ scans = EmptyDict
    /\ clock = 0
    /\ calls = 0
    /\ repo_url = <<>>
    /\ pc = "idle"
    /\ response = NoResponse
    /\ LocalsFresh

InitResolve ==
    /\ r_pc = "ready"
    /\ r_fn = "none"
    /\ r_cur \in RCurs
    /\ r_line \in RLines
    /\ r_known \in KnownSets
    /\ r_out = None

ResolveIdle ==
    /\ r_pc = "idle"
    /\ r_fn = "none"
    /\ r_cur = <<>>
    /\ r_line = Other
    /\ r_known = {}
    /\ r_out = None

\* ------------------------------------------------------------------------
\* POST /scan: start_scan and scan_repo
\* ------------------------------------------------------------------------

\* An exception leaves scan_repo; start_scan answers 400.  Nothing else
\* happens on the way out (the finally block removes an unused directory).
Raise ==
    /\ pc' = "failed"
    /\ response' = [status |-> 400]

\* Line 188.
ParseUrl ==
    /\ pc = "parse_url"
    /\ IF parse_repo_url(repo_url).ok
       THEN /\ owner_repo' = parse_repo_url(repo_url)
            /\ pc' = "download"
            /\ UNCHANGED response
       ELSE /\ Raise
            /\ UNCHANGED owner_repo
    /\ UNCHANGED <<remote, scans, clock, calls, repo_url, zip_bytes, zi,
                   files_scanned, total_loc, root_tree, all_files, file_bytes,
                   edges, tree, fb, scan_id, r_vars>>

\* Line 189.
Download ==
    /\ pc = "download"
    /\ IF DownloadRaises(remote)
       THEN /\ Raise
            /\ UNCHANGED zip_bytes
       ELSE /\ zip_bytes' = remote
            /\ pc' = "open_zip"
            /\ UNCHANGED response
    /\ UNCHANGED <<remote, scans, clock, calls, repo_url, owner_repo, zi,
                   files_scanned, total_loc, root_tree, all_files, file_bytes,
                   edges, tree, fb, scan_id, r_vars>>

\* Mutant: the scan identifier is generated before the archive is opened.
OpenZip_EarlyId ==
    /\ pc = "open_zip"
    /\ files_scanned' = 0
    /\ total_loc' = 0
    /\ root_tree' = EmptyRoot
    /\ all_files' = {}
    /\ file_bytes' = <<>>
    /\ edges' = <<>>
    /\ scan_id' = 1
    /\ IF zip_bytes.is_zip
       THEN /\ zi' = 1
            /\ pc' = "pass_one"
            /\ UNCHANGED response
       ELSE /\ Raise
            /\ UNCHANGED zi
    /\ UNCHANGED <<remote, scans, clock, calls, repo_url, owner_repo,
                   zip_bytes, tree, fb, r_vars>>

\* Lines 192-203: the accumulators, then zipfile.ZipFile(...), which raises
\* BadZipFile on bytes that are no ZIP file.
OpenZip ==
    /\ pc = "open_zip"
    /\ files_scanned' = 0
    /\ total_loc' = 0
    /\ root_tree' = EmptyRoot
    /\ all_files' = {}
    /\ file_bytes' = <<>>
    /\ edges' = <<>>
    /\ IF zip_bytes.is_zip
       THEN /\ zi' = 1
            /\ pc' = "pass_one"
            /\ UNCHANGED response
       ELSE /\ Raise
            /\ UNCHANGED zi
    /\ UNCHANGED <<remote, scans, clock, calls, repo_url, owner_repo,
                   zip_bytes, tree, fb, scan_id, r_vars>>

\* Lines 204-235: one iteration of the loop over zf.infolist(), or, for an
\* entry that stands for several copies, that many iterations: the copies
\* before the one that raises are scanned (a second copy of an entry adds
\* its lines again and leaves all_files, the tree and file_bytes as the
\* first left them), and the one that raises has been counted.
ScanEntry ==
    /\ pc = "pass_one"
    /\ zi <= Len(zip_bytes.infolist)
    /\ LET e       == zip_bytes.infolist[zi]
           rel     == RelPath(e.filename)
           loc     == count_loc_from_bytes(e.content)
           room    == MAX_FILES - files_scanned
           raises  == ~e.crc_ok \/ e.copies > room
           scanned == IF ~e.crc_ok THEN 0
                      ELSE IF e.copies > room THEN room
                      ELSE e.copies
       IN  IF e.is_dir
           THEN /\ zi' = zi + 1
                /\ UNCHANGED <<pc, response, files_scanned, total_loc,
                               root_tree, all_files, file_bytes>>
           ELSE /\ files_scanned' = files_scanned + scanned + (IF raises THEN 1 ELSE 0)
                /\ IF raises
                   THEN Raise /\ UNCHANGED zi
                   ELSE zi' = zi + 1 /\ UNCHANGED <<pc, response>>
                /\ all_files' = IF scanned > 0 THEN all_files \cup {rel} ELSE all_files
                /\ IF scanned > 0 /\ looks_textual(rel, e.content)
                   THEN /\ total_loc' = total_loc + scanned * loc
                        /\ root_tree' = add_to_tree(root_tree, Split(rel, "/"), loc)
                        /\ file_bytes' =
                              IF Retained(rel, e.content)
                              THEN OrderedSet(file_bytes, rel, e.content)
                              ELSE file_bytes
                   ELSE UNCHANGED <<total_loc, root_tree, file_bytes>>
    /\ UNCHANGED <<remote, scans, clock, calls, repo_url, owner_repo,
                   zip_bytes, edges, tree, fb, scan_id, r_vars>>

\* Line 238, once the loop is over.
BuildTree ==
    /\ pc = "pass_one"
    /\ zi > Len(zip_bytes.infolist)
    /\ tree' = tree_to_list(root_tree)
    /\ fb' = 1
    /\ pc' = "pass_two"
    /\ UNCHANGED <<remote, scans, clock, calls, repo_url, response, owner_repo,
                   zip_bytes, zi, files_scanned, total_loc, root_tree,
                   all_files, file_bytes, edges, scan_id, r_vars>>

\* Lines 241-253: one iteration of the loop over file_bytes.items().
ParseFile ==
    /\ pc = "pass_two"
    /\ fb <= Len(file_bytes)
    /\ edges' = edges \o FileEdges(file_bytes[fb].path, file_bytes[fb].content,
                                   all_files)
    /\ fb' = fb + 1
    /\ UNCHANGED <<remote, scans, clock, calls, repo_url, pc, response,
                   owner_repo, zip_bytes, zi, files_scanned, total_loc,
                   root_tree, all_files, file_bytes, tree, scan_id, r_vars>>

\* Lines 259-268.
Summary(id, created_at) ==
    [scan_id |-> id,
     owner |-> owner_repo.owner,
     repo |-> owner_repo.repo,
     repo_url |-> <<"https://", "github.com", "/", owner_repo.owner, "/">>
                  \o owner_repo.repo,
     created_at |-> created_at,
     files_scanned |-> files_scanned,
     total_loc |-> total_loc,
     limits |-> [max_bytes |-> MAX_BYTES, max_files |-> MAX_FILES]]

\* Mutant: the nodes are listed in the set's iteration order, which is not
\* the same from one run to the next.
Graph_HashOrder(files, edge_list) ==
    [nodes |-> [i \in 1..Cardinality(files) |->
                  [id |-> sorted(files)[IF calls % 2 = 0
                                        THEN Cardinality(files) + 1 - i
                                        ELSE i]]],
     edges |-> [i \in 1..Len(edge_list) |->
                  [source |-> edge_list[i][1], target |-> edge_list[i][2]]],
     note  |-> "Edges include best-effort in-repo relative JS/TS imports and Python imports."]

\* Lines 271-276.
Graph(files, edge_list) ==
    [nodes |-> [i \in 1..Cardinality(files) |-> [id |-> sorted(files)[i]]],
     edges |-> [i \in 1..Len(edge_list) |->
                  [source |-> edge_list[i][1], target |-> edge_list[i][2]]],
     note  |-> "Edges include best-effort in-repo relative JS/TS imports and Python imports."]

\* Lines 256-284, once pass two is over: a fresh uuid4, the time, the
\* record written under the id, the summary returned.
Persist ==
    /\ pc = "pass_two"
    /\ fb > Len(file_bytes)
    /\ \E id \in (1..MaxScans) \ DOMAIN scans, t \in clock..MaxTime :
         /\ scan_id' = id
         /\ clock' = t
         /\ scans' = DictSet(scans, id,
                             [summary |-> Summary(id, t),
                              tree |-> tree,
                              graph |-> Graph(all_files, edges)])
         /\ response' = [status |-> 200, body |-> Summary(id, t)]
    /\ pc' = "done"
    /\ UNCHANGED <<remote, calls, repo_url, owner_repo, zip_bytes, zi,
                   files_scanned, total_loc, root_tree, all_files, file_bytes,
                   edges, tree, fb, r_vars>>

\* The same POST /scan again: a new call of scan_repo, whose locals do not
\* exist yet.
StartScan ==
    /\ pc \in {"done", "failed"}
    /\ calls < MaxScans
    /\ calls' = calls + 1
    /\ pc' = "parse_url"
    /\ response' = NoResponse
    /\ owner_repo' = NoOwner
    /\ zip_bytes' = NoZip
    /\ zi' = 0
    /\ files_scanned' = 0
    /\ total_loc' = 0
    /\ root_tree' = EmptyRoot
    /\ all_files' = {}
    /\ file_bytes' = <<>>
    /\ edges' = <<>>
    /\ tree' = NoTree
    /\ fb' = 0
    /\ scan_id' = NoId
    /\ UNCHANGED <<remote, scans, clock, repo_url, r_vars>>

Next ==
    \/ ParseUrl
    \/ Download
    \/ OpenZip
    \/ ScanEntry
    \/ BuildTree
    \/ ParseFile
    \/ Persist
    \/ StartScan

Init == InitScan /\ ResolveIdle

Spec == Init /\ [][Next]_vars

\* ------------------------------------------------------------------------
\* One call of a resolver, or of pass two on a one-line file
\* ------------------------------------------------------------------------

CallResolveJsTs ==
    /\ r_pc = "ready"
    /\ r_fn' = "js"
    /\ r_out' = _resolve_js_ts(r_cur, r_line.spec, r_known)
    /\ r_pc' = "done"
    /\ UNCHANGED <<r_cur, r_line, r_known, scan_vars>>

\* IMPORT_RE_PY captures [\w.]+ only: a module never holds a "/".
CallResolvePy ==
    /\ r_pc = "ready"
    /\ \A i \in 1..Len(r_line.spec) : r_line.spec[i] # "/"
    /\ r_fn' = "py"
    /\ r_out' = _resolve_py(r_cur, r_line.spec, r_known)
    /\ r_pc' = "done"
    /\ UNCHANGED <<r_cur, r_line, r_known, scan_vars>>

CallFileEdges ==
    /\ r_pc = "ready"
    /\ r_fn' = "edges"
    /\ r_out' = FileEdges(r_cur, Content(FALSE, TRUE, 40, <<r_line>>),
                          r_known \cup {r_cur})
    /\ r_pc' = "done"
    /\ UNCHANGED <<r_cur, r_line, r_known, scan_vars>>

NextResolve ==
    \/ CallResolveJsTs
    \/ CallResolvePy
    \/ CallFileEdges

InitR == InitResolve /\ ScanIdle

SpecResolve == InitR /\ [][NextResolve]_vars

\* ------------------------------------------------------------------------
\* Properties
\* ------------------------------------------------------------------------

Range(f) == {f[x] : x \in DOMAIN f}

\* The entries of an archive that are files.
FileEntries(infolist) == {i \in 1..Len(infolist) : ~infolist[i].is_dir}

\* The normalised paths of the files of an archive.
FilePaths(infolist) ==
    {RelPath(infolist[i].filename) : i \in FileEntries(infolist)}

RECURSIVE SumOver(_, _)
SumOver(f, S) ==
    IF S = {} THEN 0
    ELSE LET x == CHOOSE y \in S : TRUE IN f[x] + SumOver(f, S \ {x})

\* The sum of the loc of the leaves of a finalized tree.
RECURSIVE LeafSum(_)
LeafSum(node) ==
    IF "children" \in DOMAIN node
    THEN SumOver([i \in 1..Len(node.children) |-> LeafSum(node.children[i])],
                 1..Len(node.children))
    ELSE GetLoc(node)

\* Every node with children carries the sum of its children's loc.
RECURSIVE WellSummed(_)
WellSummed(node) ==
    "children" \in DOMAIN node =>
        /\ node.loc = SumOver([i \in 1..Len(node.children) |-> GetLoc(node.children[i])],
                              1..Len(node.children))
        /\ \A i \in 1..Len(node.children) : WellSummed(node.children[i])

\* C1: in every persisted scan the loc of the leaves of the tree add up to
\* the summary's total_loc, and every node with children has the sum of its
\* children's loc.
C1_TreeTotals ==
    \A id \in DOMAIN scans :
        /\ LeafSum(scans[id].tree) = scans[id].summary.total_loc
        /\ WellSummed(scans[id].tree)

\* The bytes pass one reads off an archive, and the files it counts.
DecompressedBytes(infolist) ==
    SumOver([i \in 1..Len(infolist) |-> infolist[i].content.size * infolist[i].copies],
            FileEntries(infolist))

FileCount(infolist) ==
    SumOver([i \in 1..Len(infolist) |-> infolist[i].copies], FileEntries(infolist))

\* The request names a repository whose zipball is served and is a sound
\* ZIP file.
SoundArchive ==
    /\ parse_repo_url(repo_url).ok
    /\ remote.status_ok
    /\ remote.is_zip
    /\ \A i \in FileEntries(remote.infolist) : remote.infolist[i].crc_ok

\* C2: a finished scan of an archive whose decompressed bytes exceed
\* MAX_BYTES or whose file count exceeds MAX_FILES has failed and nothing is
\* persisted; a finished scan of an archive within both limits has
\* succeeded.
C2_Limits ==
    (pc \in {"done", "failed"} /\ SoundArchive) =>
        IF DecompressedBytes(remote.infolist) > MAX_BYTES
           \/ FileCount(remote.infolist) > MAX_FILES
        THEN pc = "failed" /\ scans = EmptyDict
        ELSE pc = "done"

\* C3: a call that has not succeeded has generated no scan identifier and
\* returned no summary, and a failed call answers with an error; whatever
\* changes the store is the step that ends a call whose two passes are
\* over, it adds one record under the new identifier, holding summary, tree
\* and graph, and returns the summary.
C3_AllOrNothing ==
    /\ [](pc # "done" => scan_id = NoId /\ response.status # 200)
    /\ [](pc = "failed" => response = [status |-> 400])
    /\ [][scans' # scans =>
            /\ pc = "pass_two" /\ pc' = "done"
            /\ zi > Len(zip_bytes.infolist)
            /\ fb > Len(file_bytes)
            /\ DOMAIN scans' = (DOMAIN scans) \cup {scan_id'}
            /\ scan_id' \notin DOMAIN scans
            /\ \A id \in DOMAIN scans : scans'[id] = scans[id]
            /\ DOMAIN scans'[scan_id'] = {"summary", "tree", "graph"}
            /\ scans'[scan_id'].tree = tree
            /\ Len(scans'[scan_id'].graph.edges) = Len(edges)
            /\ response' = [status |-> 200, body |-> scans'[scan_id'].summary]]_vars

\* A call that failed in the middle of pass one, after a file was scanned.
C3_Witness ==
    /\ pc = "failed"
    /\ zi >= 2
    /\ all_files # {}
    /\ total_loc > 0
    /\ scans = EmptyDict

\* Non-allowlisted extension and a NUL byte in the first HEAD_BYTES bytes.
IsBinary(e) ==
    splitext(RelPath(e.filename)) \notin TEXT_EXTS /\ e.content.head_nul

NodeIds(graph) == {graph.nodes[i].id : i \in 1..Len(graph.nodes)}

\* C6: in every persisted scan the graph's nodes are the normalised paths
\* of the archive's files, each once; no binary entry adds to total_loc;
\* and a binary entry's path is a node and the source of no edge (unless
\* another entry of that path is not binary).  The store changes only in
\* the step that ends a call, so the records are examined when a call has
\* ended.
C6_Nodes ==
    pc = "done" =>
        LET list  == remote.infolist
            files == FileEntries(list)
            paths == FilePaths(list)
            rel   == [i \in files |-> RelPath(list[i].filename)]
            bin   == {i \in files : IsBinary(list[i])}
            text  == SumOver([i \in 1..Len(list) |->
                                 IF i \in bin THEN 0
                                 ELSE list[i].copies * Len(list[i].content.lines)],
                             files)
        IN  \A id \in DOMAIN scans :
                LET r == scans[id]
                IN  /\ NodeIds(r.graph) = paths
                    /\ Len(r.graph.nodes) = Cardinality(paths)
                    /\ r.summary.total_loc <= text
                    /\ \A i \in bin :
                          /\ rel[i] \in NodeIds(r.graph)
                          /\ \A k \in 1..Len(r.graph.edges) :
                                r.graph.edges[k].source = rel[i] =>
                                    \E j \in files \ bin : rel[j] = rel[i]

\* A scan of a binary file whose import would resolve had it been parsed.
C6_Witness ==
    /\ pc = "done"
    /\ \E i \in FileEntries(remote.infolist) :
          /\ IsBinary(remote.infolist[i])
          /\ Len(_parse_js_ts_imports(remote.infolist[i].content.lines)) > 0
    /\ <<"src", "/", "util", ".", "ts">> \in NodeIds(scans[scan_id].graph)
    /\ <<"src", "/", "app", ".", "mjs">> \in NodeIds(scans[scan_id].graph)
    /\ scans[scan_id].graph.edges = <<>>
    /\ scans[scan_id].summary.total_loc = 1

RetainedEntries(list) ==
    {i \in FileEntries(list) :
        /\ looks_textual(RelPath(list[i].filename), list[i].content)
        /\ Retained(RelPath(list[i].filename), list[i].content)}

RetentionOrder(list) ==
    LET keep  == RetainedEntries(list)
        first == {i \in keep : \A j \in keep :
                     RelPath(list[j].filename) = RelPath(list[i].filename) => i <= j}
        last(i) == SetMax({j \in keep :
                              RelPath(list[j].filename) = RelPath(list[i].filename)})
        idx   == SelectSeq([i \in 1..Len(list) |-> i], LAMBDA i : i \in first)
    IN  [k \in 1..Len(idx) |->
            [path |-> RelPath(list[idx[k]].filename),
             content |-> list[last(idx[k])].content]]

\* The edges the resolved imports of one file give: one per specifier, in
\* order, whose resolution is a path of the archive.
ResolvedImports(path, content, known) ==
    LET js    == splitext(path) \in JS_TS_EXTS
        specs == IF js THEN _parse_js_ts_imports(content.lines)
                 ELSE _parse_py_imports(content.lines)
        pairs == [i \in 1..Len(specs) |->
                    [source |-> path,
                     target |-> IF js THEN _resolve_js_ts(path, specs[i], known)
                                ELSE _resolve_py(path, specs[i], known)]]
    IN  SelectSeq(pairs, LAMBDA e : e.target \in known)

NoDot(name) == \A i \in 1..Len(name) : name[i] # "."

\* The candidate list of C4 for a joined path, each candidate normalised:
\* the path, the path with each extension, and, with_index permitting, the
\* path with each index suffix.
CandidateList(joined, with_index) ==
    << _norm_posix(joined) >>
    \o [i \in 1..5 |-> _norm_posix(joined \o
            << <<".", "ts">>, <<".", "tsx">>, <<".", "js">>, <<".", "jsx">>,
               <<".", "json">> >>[i])]
    \o (IF with_index
        THEN [i \in 1..4 |-> _norm_posix(joined \o
                << <<"/", "index", ".", "ts">>, <<"/", "index", ".", "tsx">>,
                   <<"/", "index", ".", "js">>, <<"/", "index", ".", "jsx">> >>[i])]
        ELSE <<>>)

\* The containing directory joined with the specifier as pathlib joins
\* them: "." segments dropped, ".." segments kept.
Joined == JsBase(r_cur, r_line.spec)

JsCalled == r_pc = "done" /\ r_fn = "js" /\ _is_rel(r_line.spec)

\* C4 as stated: the result is the first known path among the joined path,
\* the joined path with .ts, .tsx, .js, .jsx, .json, and, only if the last
\* segment of the joined path has no extension, the joined path with
\* /index.ts, /index.tsx, /index.js, /index.jsx; None when there is none.
C4_Original ==
    JsCalled =>
        r_out = FirstIn(CandidateList(Joined, NoDot(PathName(PathParts(Joined)))),
                        r_known)

\* C4 as amended: the index suffixes are tried whether or not the last
\* segment of the joined path has an extension.
C4_Amended ==
    JsCalled => r_out = FirstIn(CandidateList(Joined, TRUE), r_known)

\* "./util.js" resolved to the index file of a directory named util.js.
C4_Witness ==
    /\ JsCalled
    /\ r_cur = <<"src", "/", "app", ".", "ts">>
    /\ r_line.spec = <<".", "/", "util", ".", "js">>
    /\ r_out = <<"src", "/", "util", ".", "js", "/", "index", ".", "ts">>

\* C5: "from . import helpers" in pkg/mod.py, pkg/helpers.py known, gives
\* the one edge (pkg/mod.py -> pkg/helpers.py).
C5_FromDotImport ==
    ( /\ r_pc = "done"
      /\ r_fn = "edges"
      /\ r_cur = <<"pkg", "/", "mod", ".", "py">>
      /\ r_line = Line("py_from", <<"helpers">>, <<".">>)
      /\ <<"pkg", "/", "helpers", ".", "py">> \in r_known )
    => r_out = << << <<"pkg", "/", "mod", ".", "py">>,
                     <<"pkg", "/", "helpers", ".", "py">> >> >>

\* Path parts with ".." segments collapsed against the segment before.
RECURSIVE Collapse(_, _)
Collapse(parts, done) ==
    IF parts = <<>> THEN done
    ELSE IF parts[1] = <<".", ".">> /\ done # <<>> /\ Last(done) # <<".", ".">>
    THEN Collapse(Tail(parts), SubSeq(done, 1, Len(done) - 1))
    ELSE Collapse(Tail(parts), Append(done, parts[1]))

\* C8: for a specifier that begins with "../" the candidates are built on
\* the joined path with its ".." segments collapsed, and the result is the
\* first of them that is known.
C8_ParentSegments ==
    ( /\ JsCalled
      /\ Len(r_line.spec) >= 3
      /\ SubSeq(r_line.spec, 1, 3) = <<".", ".", "/">> )
    => r_out = FirstIn(CandidateList(PathStr(Collapse(PathParts(Joined), <<>>)), TRUE),
                       r_known)

\* The path a Python module names: for a relative one the directory
\* reached by its dots with the rest beneath, for an absolute one its
\* segments from the root.
PyJoined ==
    IF r_line.spec[1] = "."
    THEN PathStr(PyTargetDir(r_cur, r_line.spec))
    ELSE Join(Split(r_line.spec, "."), "/")

\* C9: when <joined>.py and <joined>/__init__.py are both known, the
\* result is <joined>.py, for relative and absolute modules alike.
C9_PyFirst ==
    ( /\ r_pc = "done"
      /\ r_fn = "py"
      /\ splitext(r_cur) \in PY_EXTS
      /\ r_line.spec # <<>>
      /\ (PyJoined \o <<".", "py">>) \in r_known
      /\ (PyJoined \o <<"/", "__init__", ".", "py">>) \in r_known )
    => r_out = PyJoined \o <<".", "py">>

====
